---- MODULE Spec2Model ----
\* Model of revsh-rs (control side): the frame codec of src/src/message.rs,
\* the handshake of src/src/control.rs and the session broker of
\* src/src/broker.rs.
\*
\* These specifications share the module:
\*   SpecCodec   byte-level model of Message::push / Message::pull with several
\*               senders sharing one writer lock;
\*   Spec        frame-level model of the whole program from Control::new on:
\*               the accept loop, the handshake, then the broker's tasks with
\*               no local SOCKS client;
\*   SpecBroker  frame-level model of the broker from Broker::new on, with its
\*               local SOCKS clients and their flows;
\*   SpecBrokerFair  SpecBroker with the scheduling of run and message_handler;
\*   SpecReaderFair  the broker with a local SOCKS peer that writes without
\*               end, and the scheduling of proxy_reader;
\*   SpecLocks   lock-level model of the broker's tasks: their lock().await,
\*               the awaits under a guard and the drop of the guard.
EXTENDS Integers, Sequences, FiniteSets, TLC

VARIABLES
    \* ---- byte-level codec (SpecCodec) ----
    snd,        \* per sender: position inside Message::push
    wlock,      \* holder of the writer mutex (0: free)
    wire,       \* bytes accepted by the writer so far
    order,      \* frames pushed, in the order the writer mutex was acquired
    rx,         \* outcome of the last Message::pull run on a pushed frame
    \* ---- accept loop, handshake and broker (Spec, SpecBroker) ----
    main,       \* the main task: position, connections accepted, last result
    control,    \* the Control object: message_data_size, stream, shell, env, proxy
    tls,        \* the current TLS connection as the peer and the network keep it
    trace,      \* reads and writes done on the current connection, in order
    dm,         \* message_handler task (inbound demultiplexer)
    si,         \* stdin_handler task
    ls,         \* proxy_listener task
    ph,         \* proxy_handler task of each local connection
    rd,         \* proxy_reader task of each flow
    table,      \* proxy_connections: the ids in the flow table
    tableLock,  \* holder of the flow-table mutex
    local,      \* the local socket of each SOCKS connection
    update_winsize, \* UPDATE_WINSIZE
    unreported, \* a resize has set the flag and no Winresize frame built since
                \* carries a size read after it (forgotten with the flag)
    sent,       \* frames pushed by the broker's tasks: the first, the longest
                \* payload, whether a Proxy frame was among them
    flog,       \* per flow: what the server did for it, in order
    nIn,        \* inbound frames pulled by the demultiplexer
    \* ---- the broker's mutexes (SpecLocks) ----
    locks       \* at: where each task is among its lock operations;
                \* holder: the task that holds each mutex

codecVars == <<snd, wlock, wire, order, rx>>

controlVars == <<main, control, tls, trace>>

brokerVars == <<dm, si, ls, ph, rd, table, tableLock, local, update_winsize, unreported,
                sent, flog, nIn>>

lockVars == <<locks>>

mainVars == <<controlVars, brokerVars, lockVars>>

vars == <<codecVars, controlVars, brokerVars, lockVars>>

----------------------------------------------------------------------------
\* Bounds of the byte-level model.

\* Number of concurrent senders sharing the writer.
NumSenders == 2
\* Longest payload a sender pushes.
MaxData == 3
\* Largest number of bytes the writer is guaranteed to take in one write call
\* (every u8/u16 header field fits; a longer payload may be taken only partly).
WriteChunk == 2
\* Most padding bytes inserted behind the known header fields.
MaxPad == 2
\* Frames pushed on one writer.
MaxFrames == 2
\* Most bytes by which an inbound frame's header_len falls short of its header.
MaxShort == 3

Senders == 1..NumSenders

----------------------------------------------------------------------------
\* Integer <-> big-endian bytes (u16::to_be_bytes, u16::from_be_bytes).

U16Max == 65535

to_be_bytes16(v) == << (v \div 256) % 256, v % 256 >>

to_be_bytes8(v) == << v % 256 >>

from_be_bytes16(b) == b[1] * 256 + b[2]

\* DataType::value (enum -> u8) and From<u8> for DataType (u8 -> enum, every
\* byte above 6 is Unknown = 7). The enum is represented by its value.
DT_Init == 0
DT_Tty == 1
DT_Winresize == 2
DT_Proxy == 3
DT_Connection == 4
DT_Nop == 5
DT_Error == 6
DT_Unknown == 7

DataTypeFrom(n) == IF n <= 6 THEN n ELSE DT_Unknown

\* From<u16> for ProxyHeaderType: 0 Create, 1 Destroy, 2 Report, else Unknown.
ProxyHeaderTypeFrom(n) ==
    CASE n = 0 -> "Create"
      [] n = 1 -> "Destroy"
      [] n = 2 -> "Report"
      [] OTHER -> "Unknown"

\* From<u16> for ConnectionHeaderType.
ConnectionHeaderTypeFrom(n) ==
    CASE n = 0 -> "Create"
      [] n = 1 -> "Destroy"
      [] n = 2 -> "Data"
      [] n = 3 -> "Dormant"
      [] n = 4 -> "Active"
      [] OTHER -> "Unknown"

\* Message::new
MessageNew ==
    [ data_type |-> DT_Unknown, data |-> <<>>, header_type |-> 0,
      header_origin |-> 0, header_id |-> 0, header_proxy_type |-> 0 ]

----------------------------------------------------------------------------
\* Message::push

\* The match arm "DataType::Proxy | DataType::Connection".
HasSubheaders(m) == m.data_type \in {DT_Proxy, DT_Connection}

\* Mutant of HasProxyType: the header_type is read through the enum of the
\* frame's own data_type.
HasProxyTypeByDataType(m) ==
    \/ m.data_type = DT_Proxy /\ ProxyHeaderTypeFrom(m.header_type) \in {"Create", "Report"}
    \/ m.data_type = DT_Connection /\ ConnectionHeaderTypeFrom(m.header_type) = "Create"

\* The condition guarding header_proxy_type, inside that arm. It looks at the
\* numeric header_type only, through both enums, whatever the data_type is.
HasProxyType(m) ==
    \/ ProxyHeaderTypeFrom(m.header_type) = "Create"
    \/ ProxyHeaderTypeFrom(m.header_type) = "Report"
    \/ ConnectionHeaderTypeFrom(m.header_type) = "Create"

\* Mutant of HeaderLen: the two bytes of header_proxy_type are not counted.
HeaderLenNoProxyType(m) ==
    3 + (IF HasSubheaders(m) THEN 3 * 2 ELSE 0)

\* header_len as push computes it before it writes anything.
HeaderLen(m) ==
    LET base == 1 + 2
        sub  == IF HasSubheaders(m) THEN 3 * 2 ELSE 0
        pt   == IF HasSubheaders(m) /\ HasProxyType(m) THEN 2 ELSE 0
    IN  base + sub + pt

\* The buffers push hands to stream.write, in order, each with the name of
\* the field it holds.
PushFields(m) ==
    << [name |-> "header_len", bytes |-> to_be_bytes16(HeaderLen(m))],
       [name |-> "data_type",  bytes |-> to_be_bytes8(m.data_type)],
       [name |-> "data_len",   bytes |-> to_be_bytes16(Len(m.data))] >>
    \o (IF HasSubheaders(m)
        THEN << [name |-> "header_type",   bytes |-> to_be_bytes16(m.header_type)],
                [name |-> "header_origin", bytes |-> to_be_bytes16(m.header_origin)],
                [name |-> "header_id",     bytes |-> to_be_bytes16(m.header_id)] >>
             \o (IF HasProxyType(m)
                 THEN << [name |-> "header_proxy_type",
                          bytes |-> to_be_bytes16(m.header_proxy_type)] >>
                 ELSE << >>)
        ELSE << >>)
    \o << [name |-> "data", bytes |-> m.data] >>

\* stream.write(buf): AsyncWriteExt::write takes some prefix of buf and
\* returns its length, which push drops. The writer takes a whole buffer of up
\* to WriteChunk bytes; of a longer one it may take any prefix of at least
\* WriteChunk bytes.
WriteAccepts(buf) ==
    IF Len(buf) <= WriteChunk THEN {Len(buf)} ELSE WriteChunk..Len(buf)

----------------------------------------------------------------------------
\* Message::pull, one read_exact per step, on a byte string standing for the
\* stream. overflow_checks says whether the build traps integer overflow
\* (debug profile) or wraps (release profile).

PullStart(bytes, overflow_checks) ==
    [ pc |-> "header_len", bytes |-> bytes, off |-> 0,
      overflow_checks |-> overflow_checks,
      header_len |-> 0, data_len |-> 0, message |-> MessageNew ]

\* read_exact(buf) of n bytes succeeds iff the stream still holds n bytes.
CanRead(st, n) == st.off + n <= Len(st.bytes)

ReadBytes(st, n) == SubSeq(st.bytes, st.off + 1, st.off + n)

\* "header_len -= n" on a u16.
SubHeaderLen(st, n) ==
    IF st.header_len >= n
    THEN [st EXCEPT !.header_len = @ - n]
    ELSE IF st.overflow_checks
         THEN [st EXCEPT !.pc = "panic"]
         ELSE [st EXCEPT !.header_len = (@ + U16Max + 1 - n) % (U16Max + 1)]

\* Where pull goes after the field it has just read and counted.
Goto(st, pc) == IF st.pc = "panic" THEN st ELSE [st EXCEPT !.pc = pc]

PullStep(st) ==
    CASE st.pc = "header_len" ->
            IF ~CanRead(st, 2) THEN [st EXCEPT !.pc = "eof"]
            ELSE [st EXCEPT !.header_len = from_be_bytes16(ReadBytes(st, 2)),
                            !.off = @ + 2, !.pc = "data_type"]
      [] st.pc = "data_type" ->
            IF ~CanRead(st, 1) THEN [st EXCEPT !.pc = "eof"]
            ELSE Goto(SubHeaderLen(
                    [st EXCEPT !.message.data_type = DataTypeFrom(ReadBytes(st, 1)[1]),
                               !.off = @ + 1], 1), "data_len")
      [] st.pc = "data_len" ->
            IF ~CanRead(st, 2) THEN [st EXCEPT !.pc = "eof"]
            ELSE LET nx == SubHeaderLen(
                               [st EXCEPT !.data_len = from_be_bytes16(ReadBytes(st, 2)),
                                          !.off = @ + 2], 2)
                 IN  Goto(nx, IF HasSubheaders(nx.message) THEN "header_type" ELSE "skip")
      [] st.pc = "header_type" ->
            IF ~CanRead(st, 2) THEN [st EXCEPT !.pc = "eof"]
            ELSE Goto(SubHeaderLen(
                    [st EXCEPT !.message.header_type = from_be_bytes16(ReadBytes(st, 2)),
                               !.off = @ + 2], 2), "header_origin")
      [] st.pc = "header_origin" ->
            IF ~CanRead(st, 2) THEN [st EXCEPT !.pc = "eof"]
            ELSE Goto(SubHeaderLen(
                    [st EXCEPT !.message.header_origin = from_be_bytes16(ReadBytes(st, 2)),
                               !.off = @ + 2], 2), "header_id")
      [] st.pc = "header_id" ->
            IF ~CanRead(st, 2) THEN [st EXCEPT !.pc = "eof"]
            ELSE LET nx == SubHeaderLen(
                               [st EXCEPT !.message.header_id = from_be_bytes16(ReadBytes(st, 2)),
                                          !.off = @ + 2], 2)
                 IN  Goto(nx, IF HasProxyType(nx.message) THEN "header_proxy_type" ELSE "skip")
      [] st.pc = "header_proxy_type" ->
            IF ~CanRead(st, 2) THEN [st EXCEPT !.pc = "eof"]
            ELSE Goto(SubHeaderLen(
                    [st EXCEPT !.message.header_proxy_type = from_be_bytes16(ReadBytes(st, 2)),
                               !.off = @ + 2], 2), "skip")
      [] st.pc = "skip" ->
            \* if header_len > 0 { read_exact(header_len bytes) }
            IF st.header_len > 0
            THEN IF ~CanRead(st, st.header_len) THEN [st EXCEPT !.pc = "eof"]
                 ELSE [st EXCEPT !.off = @ + st.header_len, !.pc = "data"]
            ELSE [st EXCEPT !.pc = "data"]
      [] st.pc = "data" ->
            IF ~CanRead(st, st.data_len) THEN [st EXCEPT !.pc = "eof"]
            ELSE [st EXCEPT !.message.data = ReadBytes(st, st.data_len),
                            !.off = @ + st.data_len, !.pc = "ok"]
      [] OTHER -> st

RECURSIVE PullRun(_)
PullRun(st) == IF st.pc \in {"ok", "eof", "panic"} THEN st ELSE PullRun(PullStep(st))

\* Message::pull on the stream `bytes`: Ok(message) with the bytes consumed,
\* a short read ("eof"), or an overflow trap ("panic").
Pull(bytes, overflow_checks) ==
    LET st == PullRun(PullStart(bytes, overflow_checks))
    IN  [ status |-> st.pc, message |-> st.message, consumed |-> st.off ]

----------------------------------------------------------------------------
\* Senders pushing frames on one shared writer (byte level).

\* Payloads: 0..MaxData bytes, each byte telling its position.
Payloads == { [i \in 1..n |-> 64 + i] : n \in {0, MaxData} }

\* The (data_type, header_type) pairs senders use.
FrameKinds ==
    ({DT_Tty} \X {0}) \cup ({DT_Proxy} \X {0, 1, 2}) \cup ({DT_Connection} \X {0, 1, 2, 4})

\* The frames a sender may push. header_origin has no setter and stays 0.
Frames ==
    { [ data_type |-> k[1], data |-> d, header_type |-> k[2], header_origin |-> 0,
        header_id |-> 258, header_proxy_type |-> 3 ] :
        k \in FrameKinds, d \in Payloads }

IdleSender ==
    [ pc |-> "idle", message |-> MessageNew, pos |-> 0, start |-> 0,
      mark |-> 0, stop |-> 0, fields |-> << >> ]

NoRx == [ from |-> 0, pad |-> 0, status |-> "none", message |-> MessageNew,
          consumed |-> 0, given |-> 0 ]

CodecIdle ==
    /\ snd = [s \in Senders |-> IdleSender]
    /\ wlock = 0
    /\ wire = << >>
    /\ order = << >>
    /\ rx = NoRx

\* push, lines 193-211: the sender takes the writer mutex (it waits while
\* another sender holds it) and computes header_len.
PushLock(s, m) ==
    /\ snd[s].pc = "idle"
    /\ wlock = 0
    /\ Len(order) < MaxFrames
    /\ wlock' = s
    /\ order' = Append(order, m)
    /\ snd' = [snd EXCEPT ![s] =
                 [ pc |-> "write", message |-> m, pos |-> 1, start |-> Len(wire),
                   mark |-> 0, stop |-> 0, fields |-> << >> ]]
    /\ UNCHANGED <<wire, rx>>
    /\ UNCHANGED mainVars

\* push, lines 213-238: one stream.write(...).await.
PushWrite(s) ==
    /\ snd[s].pc = "write"
    /\ wlock = s
    /\ LET fs   == PushFields(snd[s].message)
           f    == fs[snd[s].pos]
           last == snd[s].pos = Len(fs)
       IN  \E n \in WriteAccepts(f.bytes) :
             /\ wire' = wire \o SubSeq(f.bytes, 1, n)
             /\ snd' = [snd EXCEPT ![s] =
                          [@ EXCEPT !.pos = @ + 1,
                                    !.fields = Append(@, f.name),
                                    !.mark = IF last THEN Len(wire) ELSE 0,
                                    !.stop = IF last THEN Len(wire) + n ELSE 0,
                                    !.pc = IF last THEN "done" ELSE "write"]]
    /\ UNCHANGED <<wlock, order, rx>>
    /\ UNCHANGED mainVars

\* The bytes sender s put on the stream in the push it is finishing.
Region(s) == SubSeq(wire, snd[s].start + 1, snd[s].stop)

\* A frame with k padding bytes behind its last header field, accounted for
\* in header_len; hdr is the number of bytes before the payload.
Pad(bytes, hdr, k) ==
    to_be_bytes16(from_be_bytes16(SubSeq(bytes, 1, 2)) + k)
    \o SubSeq(bytes, 3, hdr)
    \o [i \in 1..k |-> 255]
    \o SubSeq(bytes, hdr + 1, Len(bytes))

\* The peer reads, with Message::pull, what sender s put on the stream, with
\* k padding bytes added to the header.
PullPushed(s, k, oc) ==
    /\ snd[s].pc = "done"
    /\ LET given == Pad(Region(s), snd[s].mark - snd[s].start, k)
           r     == Pull(given, oc)
       IN  rx' = [ from |-> s, pad |-> k, status |-> r.status,
                   message |-> r.message, consumed |-> r.consumed,
                   given |-> Len(given) ]
    /\ UNCHANGED <<snd, wlock, wire, order>>
    /\ UNCHANGED mainVars

\* A frame whose header_len states d bytes fewer than its header holds.
Understate(bytes, d) ==
    to_be_bytes16(from_be_bytes16(SubSeq(bytes, 1, 2)) - d)
    \o SubSeq(bytes, 3, Len(bytes))

\* The peer reads, with Message::pull, the frame of sender s as a peer sends
\* it that states a header_len too small by d.
PullUnderstated(s, d, oc) ==
    /\ snd[s].pc = "done"
    /\ d <= from_be_bytes16(SubSeq(Region(s), 1, 2))
    /\ LET given == Understate(Region(s), d)
           r     == Pull(given, oc)
       IN  rx' = [ from |-> s, pad |-> 0 - d, status |-> r.status,
                   message |-> r.message, consumed |-> r.consumed,
                   given |-> Len(given) ]
    /\ UNCHANGED <<snd, wlock, wire, order>>
    /\ UNCHANGED mainVars

\* push, line 239: Ok(()) is returned and the mutex guard is dropped.
PushReturn(s) ==
    /\ snd[s].pc = "done"
    /\ wlock = s
    /\ wlock' = 0
    /\ snd' = [snd EXCEPT ![s] = IdleSender]
    /\ rx' = NoRx
    /\ UNCHANGED <<wire, order>>
    /\ UNCHANGED mainVars

----------------------------------------------------------------------------
\* Frame-level model: accept loop (bin/control.rs), handshake (control.rs).
\* A payload is kept as what it holds and how long it is: [what, off, len],
\* off being the offset of its first byte in the byte stream it was cut from.

\* Connections the listener accepts.
MaxConns == 2

\* if data_size < 1024 { bail!(...) }
MinDataSize == 1024

\* "/bin/bash".len()
ShellLen == 9

\* "PATH=/usr/local/sbin:/usr/local/bin:/usr/sbin:/usr/bin:/sbin:/bin".len()
PathEntryLen == 65

\* Data sizes a peer proposes.
Proposals == {512, 1024, 2048}

\* Lengths of the "TERM=..." / "LANG=..." entries the environment may add.
EnvLists == { << PathEntryLen >>, << PathEntryLen, 19, 16 >>, << PathEntryLen, 1200 >> }

RECURSIVE SumLen(_)
SumLen(lens) == IF lens = << >> THEN 0 ELSE Head(lens) + SumLen(Tail(lens))

\* self.env.join(" ").len()
JoinLen(lens) == IF lens = << >> THEN 0 ELSE SumLen(lens) + (Len(lens) - 1)

Data(what, off, len) == [what |-> what, off |-> off, len |-> len]

FrameNew ==
    [ data_type |-> DT_Unknown, data |-> Data("none", 0, 0), header_type |-> 0,
      header_origin |-> 0, header_id |-> 0, header_proxy_type |-> 0 ]

InitFrame(d) == [FrameNew EXCEPT !.data_type = DT_Init, !.data = d]

\* Control::new: the state after construction.
ControlNew ==
    [ message_data_size |-> U16Max, shell |-> 7, env |-> << 19 >>,
      proxy_address |-> FALSE, stream |-> 0 ]

MainInit ==
    /\ main = [pc |-> "configure", conn |-> 0, result |-> "none"]
    /\ control = ControlNew
    /\ tls = [up |-> FALSE]
    /\ trace = << >>

\* Positions of the main task inside Control::accept.
HandshakePcs ==
    { "write_major", "write_minor", "read_version", "write_size", "read_size",
      "push_interactive", "pull_ack", "push_shell", "push_env", "push_termsize" }

\* Mutant of AfterStep: the stream is handed to the broker right after the
\* env frame; the terminal-size frame is never sent.
AfterStepNoTermsize(pc) ==
    CASE pc = "write_major"      -> "write_minor"
      [] pc = "write_minor"      -> "read_version"
      [] pc = "read_version"     -> "write_size"
      [] pc = "write_size"       -> "read_size"
      [] pc = "read_size"        -> "push_interactive"
      [] pc = "push_interactive" -> "pull_ack"
      [] pc = "pull_ack"         -> "push_shell"
      [] pc = "push_shell"       -> "push_env"
      [] pc = "push_env"         -> "broker_new"
      [] pc = "push_termsize"    -> "broker_new"

\* The order of the statements of negotiate_protocol and handle_client, and
\* of accept after them.
AfterStep(pc) ==
    CASE pc = "write_major"      -> "write_minor"
      [] pc = "write_minor"      -> "read_version"
      [] pc = "read_version"     -> "write_size"
      [] pc = "write_size"       -> "read_size"
      [] pc = "read_size"        -> "push_interactive"
      [] pc = "push_interactive" -> "pull_ack"
      [] pc = "pull_ack"         -> "push_shell"
      [] pc = "push_shell"       -> "push_env"
      [] pc = "push_env"         -> "push_termsize"
      [] pc = "push_termsize"    -> "broker_new"

\* negotiate_protocol: if data_size < 1024 { bail!(...) }
Rejects(data_size) == data_size < MinDataSize

\* Mutant of NegotiatedSize: the peer's proposal always replaces the own size.
NegotiatedSizeTakesPeer(own, data_size) == data_size

\* negotiate_protocol: if data_size < self.message_data_size { ... = data_size }
NegotiatedSize(own, data_size) == IF data_size < own THEN data_size ELSE own

\* main(): control.shell(...).env(env).proxy(proxy_address), before the loop.
Configure(env, proxy) ==
    /\ main.pc = "configure"
    /\ control' = [control EXCEPT !.shell = ShellLen, !.env = env,
                                  !.proxy_address = proxy]
    /\ main' = [main EXCEPT !.pc = "accept"]
    /\ UNCHANGED <<tls, trace>>
    /\ UNCHANGED <<codecVars, lockVars, brokerVars>>

\* Control::accept, lines 76-79: a TCP connection is accepted and the TLS
\* handshake done; the new stream replaces the one self.stream held.
AcceptOk ==
    /\ main.pc = "accept"
    /\ main.conn < MaxConns
    /\ main' = [pc |-> "write_major", conn |-> main.conn + 1, result |-> "handshaking"]
    /\ control' = [control EXCEPT !.stream = main.conn + 1]
    /\ tls' = [up |-> TRUE]
    /\ trace' = << >>
    /\ UNCHANGED <<codecVars, lockVars, brokerVars>>

\* Control::accept, lines 76-78: listener.accept or the TLS handshake fails;
\* main logs the error and loops.
AcceptFail ==
    /\ main.pc = "accept"
    /\ main.conn < MaxConns
    /\ main' = [main EXCEPT !.conn = @ + 1, !.result = "accept_failed"]
    /\ UNCHANGED <<control, tls, trace>>
    /\ UNCHANGED <<codecVars, lockVars, brokerVars>>

\* The peer or the network ends the TLS connection: every later read and
\* write on it fails.
TlsDrop ==
    /\ tls.up
    /\ tls' = [up |-> FALSE]
    /\ UNCHANGED <<main, control, trace>>
    /\ UNCHANGED <<codecVars, lockVars, brokerVars>>

\* A read or write of the handshake returns an error: "?" leaves accept, main
\* logs the error and loops.
HandshakeIoError ==
    /\ main.pc \in HandshakePcs
    /\ ~tls.up
    /\ main' = [main EXCEPT !.pc = "accept", !.result = "io_error"]
    /\ UNCHANGED <<control, tls, trace>>
    /\ UNCHANGED <<codecVars, lockVars, brokerVars>>

HandshakeStep(pc, entry) ==
    /\ main.pc = pc
    /\ tls.up
    /\ trace' = Append(trace, entry)
    /\ main' = [main EXCEPT !.pc = AfterStep(pc)]
    /\ UNCHANGED tls
    /\ UNCHANGED <<codecVars, lockVars, brokerVars>>

WriteU16(v) == [op |-> "write_u16", value |-> v]
ReadU16(v) == [op |-> "read_u16", value |-> v]
PushOp(m) == [op |-> "push", message |-> m]
PullOp == [op |-> "pull"]

\* negotiate_protocol, lines 138-141
WriteMajor == HandshakeStep("write_major", WriteU16(1)) /\ UNCHANGED control

WriteMinor == HandshakeStep("write_minor", WriteU16(0)) /\ UNCHANGED control

\* negotiate_protocol, lines 146-151: the peer's version, read and only logged.
ReadVersion ==
    /\ main.pc = "read_version"
    /\ tls.up
    /\ trace' = trace \o << ReadU16(1), ReadU16(0) >>
    /\ main' = [main EXCEPT !.pc = AfterStep("read_version")]
    /\ UNCHANGED <<control, tls>>
    /\ UNCHANGED <<codecVars, lockVars, brokerVars>>

\* negotiate_protocol, lines 156-158
WriteSize ==
    HandshakeStep("write_size", WriteU16(control.message_data_size)) /\ UNCHANGED control

\* negotiate_protocol, lines 161-174
ReadSize(data_size) ==
    /\ main.pc = "read_size"
    /\ tls.up
    /\ trace' = Append(trace, ReadU16(data_size))
    /\ IF Rejects(data_size)
       THEN /\ main' = [main EXCEPT !.pc = "accept", !.result = "rejected"]
            /\ UNCHANGED control
       ELSE /\ main' = [main EXCEPT !.pc = AfterStep("read_size")]
            /\ control' = [control EXCEPT !.message_data_size =
                              NegotiatedSize(@, data_size)]
    /\ UNCHANGED tls
    /\ UNCHANGED <<codecVars, lockVars, brokerVars>>

\* handle_client, lines 91-95
PushInteractive ==
    HandshakeStep("push_interactive", PushOp(InitFrame(Data("interactive", 0, 1))))
    /\ UNCHANGED control

\* handle_client, line 97: one frame is read and dropped.
PullAck == HandshakeStep("pull_ack", PullOp) /\ UNCHANGED control

\* handle_client, lines 100-104
PushShell ==
    HandshakeStep("push_shell", PushOp(InitFrame(Data("shell", 0, control.shell))))
    /\ UNCHANGED control

\* handle_client, lines 107-111
PushEnv ==
    HandshakeStep("push_env", PushOp(InitFrame(Data("env", 0, JoinLen(control.env)))))
    /\ UNCHANGED control

\* handle_client, lines 114-127: two u16, whatever the terminal reports.
PushTermsize ==
    HandshakeStep("push_termsize", PushOp(InitFrame(Data("termsize", 0, 2 + 2))))
    /\ UNCHANGED control

----------------------------------------------------------------------------
\* Frame-level model: the broker (broker.rs). The build with the "tty"
\* feature is modelled; without it no SIGWINCH handler is installed and the
\* behaviours are those in which the terminal is never resized.

\* Local SOCKS connections; their source ports, the flow ids, are 1..NumLocal.
NumLocal == 1
\* Inbound frames the remote sends after the handshake.
MaxInbound == 2
\* Writes a local SOCKS peer does after its request.
MaxLocalWrites == 1
\* Reads of a per-flow reader that return a single byte.
MaxShortReads == 1
\* Bytes per write of a local SOCKS peer that writes without end.
StreamLen == 2

\* let mut buf = [0u8; 1024] in stdin_handler
StdinBufSize == 1024
\* let mut buf = [0u8; 1024] in proxy_reader
ReaderBufSize == 1024

FlowIds == 1..NumLocal

\* Sizes of one write of a local SOCKS peer.
LocalWriteSizes == {1, 1500}

\* "<port>:127.0.0.1:1081" for a four-digit port.
ProxyStringLen == 19
\* "<ipv4>:<port>" at its longest.
ConnectionStringLen == 21
\* Payload length of the inbound frames that carry data.
InboundLen == 5

\* Events kept per flow: enough for all that a flow does while its peer
\* writes at most MaxLocalWrites times.
MaxLog == 5 + MaxInbound + MaxShortReads + 2 * MaxLocalWrites

\* The log of flow x with event e added.
Logged(x, e) ==
    [flog EXCEPT ![x] = IF Len(@) < MaxLog THEN Append(@, e) ELSE @]

\* The tasks of a broker with one SOCKS flow, and its mutexes: the two halves
\* of the TLS stream, the flow table, the write half of the flow's socket.
Tasks == {"run", "message_handler", "stdin_handler", "proxy_handler", "proxy_reader"}

Locks == {"reader", "writer", "table", "local_writer"}

\* Broker::new: no task but run exists, no mutex is held.
LocksIdle ==
    [ at |-> [t \in Tasks |-> IF t = "run" THEN "proxy_lock" ELSE "off"],
      holder |-> [l \in Locks |-> "none"] ]

BrokerIdle ==
    /\ dm = [pc |-> "off", message |-> FrameNew]
    /\ si = [pc |-> "off", n |-> 0]
    /\ ls = "off"
    /\ ph = [x \in FlowIds |-> [pc |-> "off", version |-> 0, command |-> 0]]
    /\ rd = [x \in FlowIds |-> [pc |-> "off", chunk |-> Data("none", 0, 0), short |-> 0]]
    /\ table = {}
    /\ tableLock = "none"
    /\ local = [x \in FlowIds |->
                  [up |-> FALSE, writes |-> 0, written |-> 0, read |-> 0,
                   closed |-> FALSE, delivered |-> << >>]]
    /\ update_winsize = FALSE
    /\ unreported = FALSE
    /\ locks = LocksIdle
    /\ sent = [any |-> FALSE, first |-> FrameNew, maxlen |-> 0, proxy |-> FALSE]
    /\ flog = [x \in FlowIds |-> << >>]
    /\ nIn = 0

\* Message::push on the broker's writer, at frame level.
Pushed(m) ==
    sent' = [any |-> TRUE, first |-> IF sent.any THEN sent.first ELSE m,
             maxlen |-> IF m.data.len > sent.maxlen THEN m.data.len ELSE sent.maxlen,
             proxy |-> sent.proxy \/ m.data_type = DT_Proxy]

\* proxy_create, lines 127-133
ProxyCreateFrame ==
    [FrameNew EXCEPT !.data_type = DT_Proxy, !.header_type = 0,
                     !.header_proxy_type = 0,
                     !.data = Data("proxy_string", 0, ProxyStringLen)]

\* connection_create, lines 142-148
ConnectionCreateFrame(id) ==
    [FrameNew EXCEPT !.data_type = DT_Connection, !.header_type = 0,
                     !.header_id = id,
                     !.data = Data("connection_string", 0, ConnectionStringLen)]

\* connection_data, lines 153-159
ConnectionDataFrame(id, d) ==
    [FrameNew EXCEPT !.data_type = DT_Connection, !.header_type = 2,
                     !.header_id = id, !.data = d]

\* stdin_handler, lines 118-120
TtyFrame(n) == [FrameNew EXCEPT !.data_type = DT_Tty, !.data = Data("stdin", 0, n)]

\* message_handler, lines 97-103
WinresizeFrame ==
    [FrameNew EXCEPT !.data_type = DT_Winresize, !.data = Data("winsize", 0, 2 + 2)]

\* lines 96-99: the payload of a Winresize frame for the window size ws that
\* Tty::get_winsize returned, ws_row first.
WinsizePayload(ws) == to_be_bytes16(ws.ws_row) \o to_be_bytes16(ws.ws_col)

\* Window sizes of the terminal.
Winsizes == { [ws_row |-> r, ws_col |-> c] : r \in {24, 300}, c \in {80, 511} }

\* The frames the remote may send as its k-th frame.
InFrames(k) ==
    { [FrameNew EXCEPT !.data_type = DT_Tty, !.data = Data("remote", k, InboundLen)],
      [FrameNew EXCEPT !.data_type = DT_Nop] }
    \cup { [FrameNew EXCEPT !.data_type = DT_Connection, !.header_type = 2,
                            !.header_id = x, !.data = Data("remote", k, n)] :
           x \in FlowIds, n \in {0, InboundLen} }

\* Broker::new (lines 38-48) at the end of Control::accept, and broker.tty()
\* in main: the stream is taken out of control.stream and split; the SIGWINCH
\* handler is installed.
BrokerNew ==
    /\ main.pc = "broker_new"
    /\ control' = [control EXCEPT !.stream = 0]
    /\ main' = [main EXCEPT !.pc = "run", !.result = "accepted"]
    /\ UNCHANGED <<tls, trace>>
    /\ UNCHANGED <<codecVars, lockVars, brokerVars>>

\* The broker's tasks are polled while main waits in run's select!, and, being
\* spawned with tokio::spawn and never aborted, after run has returned until
\* main returns and the runtime is shut down.
Running == main.pc \in {"select", "returned"}

\* Tty::signal_handler, installed from broker.tty() on.
Sigwinch ==
    /\ main.pc \in {"run", "spawn", "select", "returned"}
    /\ update_winsize' = TRUE
    /\ unreported' = TRUE
    /\ UNCHANGED <<dm, si, ls, ph, rd, table, tableLock, local, sent, flog, nIn>>
    /\ UNCHANGED <<codecVars, lockVars, controlVars>>

\* run, lines 278-284, with a proxy address.
RunProxyCreate ==
    /\ main.pc = "run"
    /\ control.proxy_address
    /\ IF tls.up
       THEN /\ Pushed(ProxyCreateFrame)
            /\ main' = [main EXCEPT !.pc = "spawn"]
       ELSE /\ main' = [main EXCEPT !.pc = "exit", !.result = "run_error"]
            /\ UNCHANGED sent
    /\ UNCHANGED <<control, tls, trace>>
    /\ UNCHANGED <<dm, si, ls, ph, rd, table, tableLock, local, update_winsize, unreported, flog, nIn>>
    /\ UNCHANGED <<codecVars, lockVars>>

\* Mutant of RunSpawn: the tasks are spawned without waiting for proxy_create.
RunSpawnAtOnce ==
    /\ main.pc \in {"spawn", "run"}
    /\ dm' = [dm EXCEPT !.pc = "pull"]
    /\ si' = [si EXCEPT !.pc = "read"]
    /\ ls' = IF control.proxy_address THEN "listening" ELSE "off"
    /\ main' = [main EXCEPT !.pc = "select"]
    /\ UNCHANGED <<control, tls, trace>>
    /\ UNCHANGED <<ph, rd, table, tableLock, local, update_winsize, unreported, sent, flog, nIn>>
    /\ UNCHANGED <<codecVars, lockVars>>

\* run, lines 285-299: message_handler, proxy_listener (with a proxy
\* address) and stdin_handler are spawned.
RunSpawn ==
    /\ \/ main.pc = "spawn"
       \/ main.pc = "run" /\ ~control.proxy_address
    /\ dm' = [dm EXCEPT !.pc = "pull"]
    /\ si' = [si EXCEPT !.pc = "read"]
    /\ ls' = IF control.proxy_address THEN "listening" ELSE "off"
    /\ main' = [main EXCEPT !.pc = "select"]
    /\ UNCHANGED <<control, tls, trace>>
    /\ UNCHANGED <<ph, rd, table, tableLock, local, update_winsize, unreported, sent, flog, nIn>>
    /\ UNCHANGED <<codecVars, lockVars>>

\* Mutant of RunSelect: run waits for stdin_handler only.
RunSelectStdinOnly ==
    /\ main.pc = "select"
    /\ si.pc = "failed"
    /\ main' = [main EXCEPT !.pc = "returned", !.result = "broker_returned"]
    /\ UNCHANGED <<control, tls, trace>>
    /\ UNCHANGED brokerVars
    /\ UNCHANGED <<codecVars, lockVars>>

\* run, lines 301-310: the first of stdin_handler and message_handler to end
\* makes run return; the JoinHandle of the other is dropped.
RunSelect ==
    /\ main.pc = "select"
    /\ dm.pc = "failed" \/ si.pc = "failed"
    /\ main' = [main EXCEPT !.pc = "returned", !.result = "broker_returned"]
    /\ UNCHANGED <<control, tls, trace>>
    /\ UNCHANGED brokerVars
    /\ UNCHANGED <<codecVars, lockVars>>

\* main, lines 103-106: run has returned, main returns and the runtime is shut
\* down, which ends every task still there.
MainReturn ==
    /\ main.pc = "returned"
    /\ main' = [main EXCEPT !.pc = "exit"]
    /\ UNCHANGED <<control, tls, trace>>
    /\ UNCHANGED brokerVars
    /\ UNCHANGED <<codecVars, lockVars>>

\* ---- message_handler ----

\* line 65: Message::pull returns the next inbound frame.
DemuxPull(f) ==
    /\ Running /\ dm.pc = "pull" /\ tls.up
    /\ nIn < MaxInbound
    /\ dm' = [pc |-> "dispatch", message |-> f]
    /\ nIn' = nIn + 1
    /\ UNCHANGED <<si, ls, ph, rd, table, tableLock, local, update_winsize, unreported, sent, flog>>
    /\ UNCHANGED <<codecVars, lockVars, controlVars>>

\* line 65: Message::pull fails; "?" ends the task.
DemuxPullError ==
    /\ Running /\ dm.pc = "pull" /\ ~tls.up
    /\ dm' = [dm EXCEPT !.pc = "failed"]
    /\ UNCHANGED <<si, ls, ph, rd, table, tableLock, local, update_winsize, unreported, sent, flog, nIn>>
    /\ UNCHANGED <<codecVars, lockVars, controlVars>>

\* lines 67-75 and 89-91: Tty and Error go to stdout/stderr, every type but
\* Connection is otherwise only logged.
DemuxOther ==
    /\ Running /\ dm.pc = "dispatch"
    /\ dm.message.data_type # DT_Connection
    /\ dm' = [dm EXCEPT !.pc = "winsize"]
    /\ UNCHANGED <<si, ls, ph, rd, table, tableLock, local, update_winsize, unreported, sent, flog, nIn>>
    /\ UNCHANGED <<codecVars, lockVars, controlVars>>

\* Mutant of ConnectionOutcome: an empty frame for a known flow is forwarded
\* like any other instead of removing the flow.
ConnectionOutcomeNoRemove(id, len) ==
    IF id \in table THEN "write" ELSE "drop"

\* lines 79-87: what the demultiplexer does with a Connection frame, under
\* the flow-table lock.
ConnectionOutcome(id, len) ==
    IF id \in table
    THEN IF len = 0 THEN "remove" ELSE "write"
    ELSE "drop"

\* lines 76-84: the flow table is locked and header_id looked up; an empty
\* frame removes the flow, a frame for an unknown id is dropped, otherwise
\* the flow's writer is locked (the table lock stays held).
DemuxConnection ==
    /\ Running /\ dm.pc = "dispatch"
    /\ dm.message.data_type = DT_Connection
    /\ tableLock = "none"
    /\ LET id  == dm.message.header_id
           out == ConnectionOutcome(id, dm.message.data.len)
       IN  /\ table' = IF out = "remove" THEN table \ {id} ELSE table
           /\ tableLock' = IF out = "write" THEN "demux" ELSE "none"
           /\ dm' = [dm EXCEPT !.pc = IF out = "write" THEN "flow_write" ELSE "winsize"]
           /\ flog' = IF dm.message.data.len = 0
                      THEN Logged(id, [ev |-> "empty", known |-> id \in table])
                      ELSE flog
    /\ UNCHANGED <<si, ls, ph, rd, local, update_winsize, unreported, sent, nIn>>
    /\ UNCHANGED <<codecVars, lockVars, controlVars>>

\* line 85: writer.write_all(&message.data).await?; the locks are dropped at
\* the end of the arm, or by "?" when the write fails, which ends the task.
DemuxFlowWrite ==
    /\ Running /\ dm.pc = "flow_write"
    /\ LET id == dm.message.header_id
       IN  IF local[id].up
           THEN /\ local' = [local EXCEPT ![id].delivered = Append(@, dm.message.data)]
                /\ dm' = [dm EXCEPT !.pc = "winsize"]
           ELSE /\ dm' = [dm EXCEPT !.pc = "failed"]
                /\ UNCHANGED local
    /\ tableLock' = "none"
    /\ UNCHANGED <<si, ls, ph, rd, table, update_winsize, unreported, sent, flog, nIn>>
    /\ UNCHANGED <<codecVars, lockVars, controlVars>>

\* Mutant of DemuxWinsize: a Winresize frame after every frame, flag or not.
DemuxWinsizeAlways ==
    /\ Running /\ dm.pc = "winsize"
    /\ dm' = [dm EXCEPT !.pc = "winsize_push"]
    /\ UNCHANGED <<si, ls, ph, rd, table, tableLock, local, update_winsize, unreported, sent, flog, nIn>>
    /\ UNCHANGED <<codecVars, lockVars, controlVars>>

\* line 95: UPDATE_WINSIZE.load
DemuxWinsize ==
    /\ Running /\ dm.pc = "winsize"
    /\ dm' = [dm EXCEPT !.pc = IF update_winsize THEN "winsize_push" ELSE "pull"]
    /\ UNCHANGED <<si, ls, ph, rd, table, tableLock, local, update_winsize, unreported, sent, flog, nIn>>
    /\ UNCHANGED <<codecVars, lockVars, controlVars>>

\* lines 96-105: the window size is read and the Winresize frame pushed.
DemuxWinsizePush ==
    /\ Running /\ dm.pc = "winsize_push"
    /\ IF tls.up
       THEN /\ Pushed(WinresizeFrame)
            /\ unreported' = FALSE
            /\ dm' = [dm EXCEPT !.pc = "winsize_store"]
       ELSE /\ dm' = [dm EXCEPT !.pc = "failed"]
            /\ UNCHANGED <<sent, unreported>>
    /\ UNCHANGED <<si, ls, ph, rd, table, tableLock, local, update_winsize, flog, nIn>>
    /\ UNCHANGED <<codecVars, lockVars, controlVars>>

\* line 106: UPDATE_WINSIZE.store(false)
DemuxWinsizeStore ==
    /\ Running /\ dm.pc = "winsize_store"
    /\ update_winsize' = FALSE
    /\ unreported' = FALSE
    /\ dm' = [dm EXCEPT !.pc = "pull"]
    /\ UNCHANGED <<si, ls, ph, rd, table, tableLock, local, sent, flog, nIn>>
    /\ UNCHANGED <<codecVars, lockVars, controlVars>>

\* ---- stdin_handler ----

\* line 117: stdin.read returns n bytes (0 at end of input).
StdinRead(n) ==
    /\ Running /\ si.pc = "read"
    /\ si' = [pc |-> "push", n |-> n]
    /\ UNCHANGED <<dm, ls, ph, rd, table, tableLock, local, update_winsize, unreported, sent, flog, nIn>>
    /\ UNCHANGED <<codecVars, lockVars, controlVars>>

\* line 117: stdin.read fails; "?" ends the task.
StdinReadError ==
    /\ Running /\ si.pc = "read"
    /\ si' = [si EXCEPT !.pc = "failed"]
    /\ UNCHANGED <<dm, ls, ph, rd, table, tableLock, local, update_winsize, unreported, sent, flog, nIn>>
    /\ UNCHANGED <<codecVars, lockVars, controlVars>>

\* lines 118-122: the bytes read are pushed as one Tty frame.
StdinPush ==
    /\ Running /\ si.pc = "push"
    /\ IF tls.up
       THEN /\ Pushed(TtyFrame(si.n))
            /\ si' = [si EXCEPT !.pc = "read"]
       ELSE /\ si' = [si EXCEPT !.pc = "failed"]
            /\ UNCHANGED sent
    /\ UNCHANGED <<dm, ls, ph, rd, table, tableLock, local, update_winsize, unreported, flog, nIn>>
    /\ UNCHANGED <<codecVars, lockVars, controlVars>>

\* ---- proxy_listener, proxy_handler ----

\* proxy_listener, lines 266-272: a local connection from source port x is
\* accepted and its proxy_handler spawned.
ListenerAccept(x) ==
    /\ Running /\ ls = "listening"
    /\ ph[x].pc = "off"
    /\ ph' = [ph EXCEPT ![x].pc = "request"]
    /\ local' = [local EXCEPT ![x].up = TRUE]
    /\ UNCHANGED <<dm, si, ls, rd, table, tableLock, update_winsize, unreported, sent, flog, nIn>>
    /\ UNCHANGED <<codecVars, lockVars, controlVars>>

\* Mutant of RequestAccepted: the command byte is not examined.
RequestAcceptedAnyCommand(version, command) == version = 4

\* proxy_handler, lines 171-181: version must be 4 and command 1.
RequestAccepted(version, command) == version = 4 /\ command = 1

\* proxy_handler, lines 169-194: the SOCKS4 request is read.
HandlerRequest(x, version, command) ==
    /\ Running /\ ph[x].pc = "request"
    /\ ph' = [ph EXCEPT ![x] =
                 IF ~local[x].up
                 THEN [@ EXCEPT !.pc = "failed"]
                 ELSE [pc |-> IF RequestAccepted(version, command)
                              THEN "create" ELSE "failed",
                       version |-> version,
                       command |-> IF version = 4 THEN command ELSE 0]]
    /\ local' = [local EXCEPT ![x].up =
                 IF RequestAccepted(version, command) THEN @ ELSE FALSE]
    /\ UNCHANGED <<dm, si, ls, rd, table, tableLock, update_winsize, unreported, sent, flog, nIn>>
    /\ UNCHANGED <<codecVars, lockVars, controlVars>>

\* proxy_handler, line 196: ConnectionCreate is pushed.
HandlerCreate(x) ==
    /\ Running /\ ph[x].pc = "create"
    /\ IF tls.up
       THEN /\ Pushed(ConnectionCreateFrame(x))
            /\ flog' = Logged(x, [ev |-> "create", frame |-> ConnectionCreateFrame(x)])
            /\ ph' = [ph EXCEPT ![x].pc = "reply"]
       ELSE /\ ph' = [ph EXCEPT ![x].pc = "failed"]
            /\ UNCHANGED <<sent, flog>>
    /\ UNCHANGED <<dm, si, ls, rd, table, tableLock, local, update_winsize, unreported, nIn>>
    /\ UNCHANGED <<codecVars, lockVars, controlVars>>

\* proxy_handler, lines 198-201: the 8-byte reply is written to the peer.
HandlerReply(x) ==
    /\ Running /\ ph[x].pc = "reply"
    /\ IF local[x].up
       THEN /\ local' = [local EXCEPT ![x].delivered = Append(@, Data("reply", 0, 8))]
            /\ flog' = Logged(x, [ev |-> "reply"])
            /\ ph' = [ph EXCEPT ![x].pc = "insert"]
       ELSE /\ ph' = [ph EXCEPT ![x].pc = "failed"]
            /\ UNCHANGED <<local, flog>>
    /\ UNCHANGED <<dm, si, ls, rd, table, tableLock, update_winsize, unreported, sent, nIn>>
    /\ UNCHANGED <<codecVars, lockVars, controlVars>>

\* proxy_handler, lines 203-222: the write half is put in the flow table
\* under the lock, then the reader is spawned.
HandlerInsert(x) ==
    /\ Running /\ ph[x].pc = "insert"
    /\ tableLock = "none"
    /\ table' = table \cup {x}
    /\ flog' = Logged(x, [ev |-> "insert"])
    /\ ph' = [ph EXCEPT ![x].pc = "done"]
    /\ rd' = [rd EXCEPT ![x].pc = "select"]
    /\ UNCHANGED <<dm, si, ls, tableLock, local, update_winsize, unreported, sent, nIn>>
    /\ UNCHANGED <<codecVars, lockVars, controlVars>>

\* ---- the local SOCKS peer ----

Avail(x) == local[x].written - local[x].read

\* The peer writes n more bytes behind its request.
LocalWrite(x, n) ==
    /\ Running /\ ph[x].pc # "off"
    /\ local[x].up /\ ~local[x].closed
    /\ local[x].writes < MaxLocalWrites
    /\ local' = [local EXCEPT ![x].written = @ + n, ![x].writes = @ + 1]
    /\ UNCHANGED <<dm, si, ls, ph, rd, table, tableLock, update_winsize, unreported, sent, flog, nIn>>
    /\ UNCHANGED <<codecVars, lockVars, controlVars>>

\* The peer closes its side: the reader sees end of input once it has read
\* all the bytes written.
LocalClose(x) ==
    /\ Running /\ ph[x].pc # "off"
    /\ local[x].up /\ ~local[x].closed
    /\ local' = [local EXCEPT ![x].closed = TRUE]
    /\ UNCHANGED <<dm, si, ls, ph, rd, table, tableLock, update_winsize, unreported, sent, flog, nIn>>
    /\ UNCHANGED <<codecVars, lockVars, controlVars>>

\* The connection is reset: every later read and write on it fails.
LocalReset(x) ==
    /\ Running /\ ph[x].pc # "off"
    /\ local[x].up
    /\ local' = [local EXCEPT ![x].up = FALSE]
    /\ UNCHANGED <<dm, si, ls, ph, rd, table, tableLock, update_winsize, unreported, sent, flog, nIn>>
    /\ UNCHANGED <<codecVars, lockVars, controlVars>>

\* The peer goes on writing without end: whenever the reader has taken all
\* there was, StreamLen more bytes arrive before its one-second sleep is over.
\* Positions in the byte stream are counted from that write on.
LocalStream(x) ==
    /\ Running /\ rd[x].pc = "select"
    /\ local[x].up /\ ~local[x].closed
    /\ Avail(x) = 0
    /\ local' = [local EXCEPT ![x].written = StreamLen, ![x].read = 0]
    /\ UNCHANGED <<dm, si, ls, ph, rd, table, tableLock, update_winsize, unreported, sent, flog, nIn>>
    /\ UNCHANGED <<codecVars, lockVars, controlVars>>

\* ---- proxy_reader ----

Min(a, b) == IF a < b THEN a ELSE b

\* What local_reader.read(&mut buf) may return when data is there: all of it
\* up to the buffer size, or (a bounded number of times) one byte.
ReadSizes(x) ==
    { Min(Avail(x), ReaderBufSize) }
    \cup (IF rd[x].short < MaxShortReads THEN {1} ELSE {})

\* The n bytes a read returns: the next n of the peer's byte stream.
NextChunk(x, n) == Data("local", local[x].read, n)

\* lines 234-240: the read branch of select! completes with n >= 1 bytes.
ReaderRead(x, n) ==
    /\ Running /\ rd[x].pc = "select"
    /\ local[x].up /\ Avail(x) > 0
    /\ n \in ReadSizes(x)
    /\ rd' = [rd EXCEPT ![x] = [pc |-> "push", chunk |-> NextChunk(x, n),
                                short |-> IF n = 1 THEN @.short + 1 ELSE @.short]]
    /\ local' = [local EXCEPT ![x].read = @ + n]
    /\ UNCHANGED <<dm, si, ls, ph, table, tableLock, update_winsize, unreported, sent, flog, nIn>>
    /\ UNCHANGED <<codecVars, lockVars, controlVars>>

\* lines 237-239 and 242: the read returns 0 (the peer closed) or an error;
\* the loop is left.
ReaderClosed(x) ==
    /\ Running /\ rd[x].pc = "select"
    /\ \/ ~local[x].up
       \/ local[x].closed /\ Avail(x) = 0
    /\ rd' = [rd EXCEPT ![x].pc = "remove"]
    /\ flog' = Logged(x, [ev |-> IF local[x].up THEN "closed" ELSE "error"])
    /\ UNCHANGED <<dm, si, ls, ph, table, tableLock, local, update_winsize, unreported, sent, nIn>>
    /\ UNCHANGED <<codecVars, lockVars, controlVars>>

\* Message::push, line 238: stream.write(&self.data) is called once and its
\* count dropped; the writer takes all len bytes of the payload or fewer.
DataWritten(len) == IF len <= WriteChunk THEN {len} ELSE {WriteChunk, len}

\* line 240: connection_data pushes the chunk, of which the tunnel takes k
\* bytes; when the push fails "?" ends the task at once, without the removal
\* of lines 253-254.
ReaderPush(x, k) ==
    /\ Running /\ rd[x].pc = "push"
    /\ k \in DataWritten(rd[x].chunk.len)
    /\ IF tls.up
       THEN /\ Pushed(ConnectionDataFrame(x, rd[x].chunk))
            /\ flog' = Logged(x, [ev |-> "data", data |-> rd[x].chunk, wrote |-> k])
            /\ rd' = [rd EXCEPT ![x].pc = "select"]
       ELSE /\ rd' = [rd EXCEPT ![x].pc = "failed"]
            /\ UNCHANGED <<sent, flog>>
    /\ UNCHANGED <<dm, si, ls, ph, table, tableLock, local, update_winsize, unreported, nIn>>
    /\ UNCHANGED <<codecVars, lockVars, controlVars>>

\* lines 245-250: no read completed for a second; the flow table is locked
\* and looked at, and the loop is left when the flow is gone.
ReaderTick(x) ==
    /\ Running /\ rd[x].pc = "select"
    /\ local[x].up /\ Avail(x) = 0 /\ ~local[x].closed
    /\ tableLock = "none"
    /\ x \notin table
    /\ rd' = [rd EXCEPT ![x].pc = "remove"]
    /\ flog' = Logged(x, [ev |-> "gone"])
    /\ UNCHANGED <<dm, si, ls, ph, table, tableLock, local, update_winsize, unreported, sent, nIn>>
    /\ UNCHANGED <<codecVars, lockVars, controlVars>>

\* lines 253-255: the flow is removed from the table; the task ends.
ReaderRemove(x) ==
    /\ Running /\ rd[x].pc = "remove"
    /\ tableLock = "none"
    /\ table' = table \ {x}
    /\ rd' = [rd EXCEPT ![x].pc = "exited"]
    /\ UNCHANGED <<dm, si, ls, ph, tableLock, local, update_winsize, unreported, sent, flog, nIn>>
    /\ UNCHANGED <<codecVars, lockVars, controlVars>>

----------------------------------------------------------------------------
\* Specifications.

Init == CodecIdle /\ MainInit /\ BrokerIdle

ControlNext ==
    \/ \E env \in EnvLists, proxy \in BOOLEAN : Configure(env, proxy)
    \/ AcceptOk
    \/ AcceptFail
    \/ HandshakeIoError
    \/ WriteMajor
    \/ WriteMinor
    \/ ReadVersion
    \/ WriteSize
    \/ \E p \in Proposals : ReadSize(p)
    \/ PushInteractive
    \/ PullAck
    \/ PushShell
    \/ PushEnv
    \/ PushTermsize
    \/ BrokerNew

RunNext ==
    \/ TlsDrop
    \/ Sigwinch
    \/ RunProxyCreate
    \/ RunSpawn
    \/ RunSelect
    \/ MainReturn

DemuxNext ==
    \/ \E f \in InFrames(nIn + 1) : DemuxPull(f)
    \/ DemuxPullError
    \/ DemuxOther
    \/ DemuxConnection
    \/ DemuxWinsize
    \/ DemuxWinsizePush
    \/ DemuxWinsizeStore

StdinNext ==
    \/ \E n \in {0, 1, StdinBufSize} : StdinRead(n)
    \/ StdinReadError
    \/ StdinPush

FlowNext ==
    \/ DemuxFlowWrite
    \/ \E x \in FlowIds : ListenerAccept(x)
    \/ \E x \in FlowIds, v \in {4, 5}, c \in {1, 2} : HandlerRequest(x, v, c)
    \/ \E x \in FlowIds : HandlerCreate(x)
    \/ \E x \in FlowIds : HandlerReply(x)
    \/ \E x \in FlowIds : HandlerInsert(x)
    \/ \E x \in FlowIds, n \in LocalWriteSizes : LocalWrite(x, n)
    \/ \E x \in FlowIds : LocalClose(x)
    \/ \E x \in FlowIds : LocalReset(x)
    \/ \E x \in FlowIds : \E n \in ReadSizes(x) : ReaderRead(x, n)
    \/ \E x \in FlowIds : ReaderClosed(x)
    \/ \E x \in FlowIds : \E k \in DataWritten(rd[x].chunk.len) : ReaderPush(x, k)
    \/ \E x \in FlowIds : ReaderTick(x)
    \/ \E x \in FlowIds : ReaderRemove(x)

\* The whole program, from Control::new on, with no local SOCKS client.
Next == ControlNext \/ RunNext \/ DemuxNext \/ StdinNext

Spec == Init /\ [][Next]_vars

\* The handshake of a connection that completes, as the trace keeps it.
CompletedTrace(offer, data_size, shell, env) ==
    << WriteU16(1), WriteU16(0), ReadU16(1), ReadU16(0), WriteU16(offer),
       ReadU16(data_size),
       PushOp(InitFrame(Data("interactive", 0, 1))), PullOp,
       PushOp(InitFrame(Data("shell", 0, shell))),
       PushOp(InitFrame(Data("env", 0, JoinLen(env)))),
       PushOp(InitFrame(Data("termsize", 0, 2 + 2))) >>

\* The broker from Broker::new on, with its local SOCKS clients and a
\* terminal that sends no input: the state main is in after the first
\* connection completed its handshake with the smallest size it accepts.
InitBroker ==
    /\ CodecIdle
    /\ BrokerIdle
    /\ \E data_size \in {MinDataSize}, proxy \in BOOLEAN :
         /\ control = [ControlNew EXCEPT
                          !.shell = ShellLen, !.env = << PathEntryLen >>,
                          !.proxy_address = proxy,
                          !.message_data_size = NegotiatedSize(U16Max, data_size)]
         /\ trace = CompletedTrace(U16Max, data_size, ShellLen, << PathEntryLen >>)
    /\ main = [pc |-> "run", conn |-> 1, result |-> "accepted"]
    /\ tls = [up |-> TRUE]

NextBroker == RunNext \/ DemuxNext \/ FlowNext

SpecBroker == InitBroker /\ [][NextBroker]_vars

\* What the tokio scheduler gives: main in run is polled when it can go on,
\* and so is message_handler, whose steps other than waiting for the next
\* frame (a failed pull, a write to a local socket buffer included) complete.
RunStep == RunProxyCreate \/ RunSpawn \/ RunSelect

DemuxStep ==
    \/ DemuxPullError
    \/ DemuxOther
    \/ DemuxConnection
    \/ DemuxFlowWrite
    \/ DemuxWinsize
    \/ DemuxWinsizePush
    \/ DemuxWinsizeStore

SpecBrokerFair ==
    InitBroker /\ [][NextBroker]_vars /\ WF_vars(RunStep) /\ WF_vars(DemuxStep)

\* The broker with one kind of local SOCKS peer, that writes without end, and
\* a transport that does not fail.
NextReader ==
    \/ RunProxyCreate
    \/ RunSpawn
    \/ \E f \in InFrames(nIn + 1) : DemuxPull(f)
    \/ DemuxOther
    \/ DemuxConnection
    \/ DemuxFlowWrite
    \/ DemuxWinsize
    \/ \E x \in FlowIds : ListenerAccept(x)
    \/ \E x \in FlowIds, v \in {4, 5}, c \in {1, 2} : HandlerRequest(x, v, c)
    \/ \E x \in FlowIds : HandlerCreate(x)
    \/ \E x \in FlowIds : HandlerReply(x)
    \/ \E x \in FlowIds : HandlerInsert(x)
    \/ \E x \in FlowIds : LocalStream(x)
    \/ \E x \in FlowIds : \E n \in ReadSizes(x) : ReaderRead(x, n)
    \/ \E x \in FlowIds : \E k \in DataWritten(rd[x].chunk.len) : ReaderPush(x, k)
    \/ \E x \in FlowIds : ReaderTick(x)
    \/ \E x \in FlowIds : ReaderRemove(x)

\* What the tokio scheduler and timer give a proxy_reader: a read that can
\* complete does, a push completes, and the sleep of one select! fires when
\* nothing else completed during it; the sleep is made anew by every select!.
ReaderFairness(x) ==
    /\ WF_vars(\E n \in ReadSizes(x) : ReaderRead(x, n))
    /\ WF_vars(\E k \in DataWritten(rd[x].chunk.len) : ReaderPush(x, k))
    /\ WF_vars(ReaderTick(x))
    /\ WF_vars(ReaderRemove(x))

SpecReaderFair ==
    /\ InitBroker /\ [][NextReader]_vars
    /\ WF_vars(RunProxyCreate \/ RunSpawn)
    /\ WF_vars(DemuxOther \/ DemuxConnection \/ DemuxFlowWrite \/ DemuxWinsize)
    /\ \A x \in FlowIds : ReaderFairness(x)

----------------------------------------------------------------------------
\* Lock-level model of the broker: every task as the sequence of its
\* lock().await, its awaits under the guard and the drop of the guard.

\* mutex.lock().await by task t at position from: it waits while the mutex is
\* held.
Acquire(t, l, from, to) ==
    /\ locks.at[t] = from
    /\ locks.holder[l] = "none"
    /\ locks' = [at |-> [locks.at EXCEPT ![t] = to],
                 holder |-> [locks.holder EXCEPT ![l] = t]]
    /\ UNCHANGED <<codecVars, controlVars, brokerVars>>

\* The work of task t under its guards is done and its guards are dropped.
Release(t, guards, from, to) ==
    /\ locks.at[t] = from
    /\ \A l \in guards : locks.holder[l] = t
    /\ locks' = [at |-> [locks.at EXCEPT ![t] = to],
                 holder |-> [l \in Locks |->
                               IF l \in guards THEN "none" ELSE locks.holder[l]]]
    /\ UNCHANGED <<codecVars, controlVars, brokerVars>>

\* A step of task t that takes and drops no mutex.
Go(t, from, to) ==
    /\ locks.at[t] = from
    /\ locks' = [locks EXCEPT !.at[t] = to]
    /\ UNCHANGED <<codecVars, controlVars, brokerVars>>

\* run, lines 278-299.
run_locks ==
    \* lines 278-284: proxy_create pushes, Message::push locks the writer;
    \/ Acquire("run", "writer", "proxy_lock", "creating")
    \* lines 285-299: the push has returned; the tasks are spawned, and the
    \* listener has a connection whose proxy_handler starts.
    \/ /\ locks.at["run"] = "creating"
       /\ locks.holder["writer"] = "run"
       /\ locks' = [at |-> [t \in Tasks |->
                             CASE t = "run" -> "select"
                               [] t = "message_handler" -> "pull_lock"
                               [] t = "stdin_handler" -> "read"
                               [] t = "proxy_handler" -> "request"
                               [] OTHER -> locks.at[t]],
                    holder |-> [locks.holder EXCEPT !["writer"] = "none"]]
       /\ UNCHANGED <<codecVars, controlVars, brokerVars>>

\* message_handler, lines 56-109.
message_handler_locks ==
    \* line 65: Message::pull locks the reader (message.rs:246-247),
    \/ Acquire("message_handler", "reader", "pull_lock", "pulling")
    \* reads a frame and returns: a Tty, Error or other frame,
    \/ Release("message_handler", {"reader"}, "pulling", "winsize")
    \* a Connection frame,
    \/ Release("message_handler", {"reader"}, "pulling", "table_lock")
    \* or an error, and "?" ends the task.
    \/ Release("message_handler", {"reader"}, "pulling", "ended")
    \* line 78: proxy_connections.lock().await
    \/ Acquire("message_handler", "table", "table_lock", "lookup")
    \* lines 79-82 and 86-87: the id is unknown or the frame empty; the arm ends.
    \/ Release("message_handler", {"table"}, "lookup", "winsize")
    \* lines 79-83: the id is known and the frame has data.
    \/ Go("message_handler", "lookup", "writer_lock")
    \* line 83: proxy_connection.writer.lock().await, under the table guard
    \/ Acquire("message_handler", "local_writer", "writer_lock", "flow_write")
    \* lines 85-88: write_all returns and both guards are dropped at the end
    \* of the arm,
    \/ Release("message_handler", {"local_writer", "table"}, "flow_write", "winsize")
    \* or by "?" when the write fails.
    \/ Release("message_handler", {"local_writer", "table"}, "flow_write", "ended")
    \* line 95: the flag is clear,
    \/ Go("message_handler", "winsize", "pull_lock")
    \* or set: lines 100-104, the push locks the writer
    \/ Go("message_handler", "winsize", "push_lock")
    \/ Acquire("message_handler", "writer", "push_lock", "pushing")
    \* and returns,
    \/ Release("message_handler", {"writer"}, "pushing", "pull_lock")
    \* or fails, and "?" ends the task.
    \/ Release("message_handler", {"writer"}, "pushing", "ended")

\* stdin_handler, lines 111-124.
stdin_handler_locks ==
    \* line 117: the read;
    \/ Go("stdin_handler", "read", "push_lock")
    \* lines 118-122: the push, which returns or fails.
    \/ Acquire("stdin_handler", "writer", "push_lock", "pushing")
    \/ Release("stdin_handler", {"writer"}, "pushing", "read")
    \/ Release("stdin_handler", {"writer"}, "pushing", "ended")

\* proxy_handler, lines 163-223.
proxy_handler_locks ==
    \* lines 169-194: the request is read from the socket the task owns, and
    \* is accepted or not;
    \/ Go("proxy_handler", "request", "create_lock")
    \/ Go("proxy_handler", "request", "failed")
    \* line 196: connection_create pushes, and the push returns or fails;
    \/ Acquire("proxy_handler", "writer", "create_lock", "creating")
    \/ Release("proxy_handler", {"writer"}, "creating", "reply")
    \/ Release("proxy_handler", {"writer"}, "creating", "failed")
    \* lines 198-201: the reply is written, no mutex held;
    \/ Go("proxy_handler", "reply", "insert_lock")
    \* lines 205-213: the insert under the table guard, dropped at the end of
    \* the block; lines 215-220: proxy_reader is spawned.
    \/ Acquire("proxy_handler", "table", "insert_lock", "inserting")
    \/ /\ locks.at["proxy_handler"] = "inserting"
       /\ locks.holder["table"] = "proxy_handler"
       /\ locks' = [at |-> [locks.at EXCEPT !["proxy_handler"] = "done",
                                             !["proxy_reader"] = "select"],
                    holder |-> [locks.holder EXCEPT !["table"] = "none"]]
       /\ UNCHANGED <<codecVars, controlVars, brokerVars>>

\* Mutant of RdTickGone: break leaves the loop with the guard still alive.
RdTickGoneKeepsGuard == Go("proxy_reader", "check", "leave_lock")

\* proxy_reader, lines 247-249: the flow is gone; break leaves the arm's
\* block, which drops the guard.
RdTickGone == Release("proxy_reader", {"table"}, "check", "leave_lock")

\* proxy_reader, lines 225-256.
proxy_reader_locks ==
    \* lines 234-240: the read arm with data; connection_data pushes, and the
    \* push returns or fails ("?" returns past the removal);
    \/ Go("proxy_reader", "select", "push_lock")
    \/ Acquire("proxy_reader", "writer", "push_lock", "pushing")
    \/ Release("proxy_reader", {"writer"}, "pushing", "select")
    \/ Release("proxy_reader", {"writer"}, "pushing", "exited")
    \* lines 237-239, 242: the read returns 0 or an error; break.
    \/ Go("proxy_reader", "select", "leave_lock")
    \* line 245: the sleep arm; line 246: proxy_connections.lock().await
    \/ Go("proxy_reader", "select", "tick_lock")
    \/ Acquire("proxy_reader", "table", "tick_lock", "check")
    \* lines 247-250: the flow is there, the guard is dropped at the end of
    \* the arm; or it is gone.
    \/ Release("proxy_reader", {"table"}, "check", "select")
    \/ RdTickGone
    \* lines 253-255: the lock is taken again for the removal; the task ends.
    \/ Acquire("proxy_reader", "table", "leave_lock", "removing")
    \/ Release("proxy_reader", {"table"}, "removing", "exited")

NextLocks ==
    \/ run_locks
    \/ message_handler_locks
    \/ stdin_handler_locks
    \/ proxy_handler_locks
    \/ proxy_reader_locks

\* The broker's tasks at the level of their mutexes, with a proxy address.
InitLocks ==
    /\ InitBroker
    /\ control.proxy_address

SpecLocks == InitLocks /\ [][NextLocks]_vars

\* The codec alone, with NumSenders tasks that push.
InitCodec == CodecIdle /\ MainInit /\ BrokerIdle

NextCodec ==
    \/ \E s \in Senders, m \in Frames : PushLock(s, m)
    \/ \E s \in Senders : PushWrite(s)
    \/ \E s \in Senders, k \in 0..MaxPad, oc \in BOOLEAN : PullPushed(s, k, oc)
    \/ \E s \in Senders, d \in 1..MaxShort, oc \in BOOLEAN : PullUnderstated(s, d, oc)
    \/ \E s \in Senders : PushReturn(s)

SpecCodec == InitCodec /\ [][NextCodec]_vars

----------------------------------------------------------------------------
\* Properties of the codec (checked under SpecCodec).

\* The complete encoding of a frame: every buffer push writes, in full.
RECURSIVE Flatten(_)
Flatten(bufs) == IF bufs = << >> THEN << >> ELSE Head(bufs).bytes \o Flatten(Tail(bufs))

Encode(m) == Flatten(PushFields(m))

RECURSIVE EncodeAll(_)
EncodeAll(ms) == IF ms = << >> THEN << >> ELSE Encode(Head(ms)) \o EncodeAll(Tail(ms))

FieldSet(s) == { snd[s].fields[i] : i \in 1..Len(snd[s].fields) }

\* C1: whenever no push is in progress, the byte stream is the concatenation,
\* in the order the writer mutex was taken, of the complete encodings of the
\* frames whose push returned Ok: whole frames, each exactly once, never
\* interleaved.
AtomicFraming == wlock = 0 => wire = EncodeAll(order)

\* What the writer mutex does give: a push in progress appends only
\* behind the bytes of the frames pushed before it, and only one sender writes
\* at a time.
NoInterleaving ==
    /\ Cardinality({s \in Senders : snd[s].pc # "idle"}) <= 1
    /\ \A s \in Senders : snd[s].pc # "idle" => wlock = s

\* C2: pull applied to the bytes a push wrote, with k >= 0 padding bytes
\* added behind the last header field and counted in header_len, returns the
\* pushed frame field by field and consumes exactly those bytes.
RoundTrip ==
    (rx.status # "none" /\ rx.pad >= 0) =>
        LET m == snd[rx.from].message
        IN  /\ rx.status = "ok"
            /\ rx.consumed = rx.given
            /\ rx.message.data_type = m.data_type
            /\ rx.message.data = m.data
            /\ HasSubheaders(m) =>
                  /\ rx.message.header_type = m.header_type
                  /\ rx.message.header_origin = m.header_origin
                  /\ rx.message.header_id = m.header_id
            /\ "header_proxy_type" \in FieldSet(rx.from) =>
                  rx.message.header_proxy_type = m.header_proxy_type

\* The round trip does hold for every push whose payload write was taken in
\* full by the writer.
RoundTripOfWholeWrites ==
    (rx.status # "none" /\ Region(rx.from) = Encode(snd[rx.from].message)) => RoundTrip

EmittedHeaderLen(s) == from_be_bytes16(SubSeq(wire, snd[s].start + 1, snd[s].start + 2))

----------------------------------------------------------------------------
\* Properties of the handshake (checked under Spec).

\* The handshake of the current connection is complete: accept has returned
\* its broker, or is about to.
HandshakeComplete ==
    main.pc \in {"broker_new", "run", "spawn", "select", "returned", "exit"}

\* What the i-th read or write of the current connection has to be, the two
\* sizes being those that went over the stream.
ExpectedEntry(i) ==
    CompletedTrace(IF Len(trace) >= 5 THEN trace[5].value ELSE 0,
                   IF Len(trace) >= 6 THEN trace[6].value ELSE 0,
                   control.shell, control.env)[i]

\* C5: the reads and writes of every accepted connection are, in this order,
\* write major 1, write minor 0, read the peer's major and minor, write the
\* own size, read the proposal, push Init[1 byte], pull one frame, push
\* Init(shell), push Init(env joined by spaces), push Init(4 bytes of terminal
\* size); until the last of them is done no broker task runs and no frame of
\* any other kind has been sent, and the broker is only made after all of them.
HandshakeOrder ==
    /\ Len(trace) <= 11
    /\ \A i \in 1..Len(trace) : trace[i] = ExpectedEntry(i)
    /\ HandshakeComplete => Len(trace) = 11
    /\ ~HandshakeComplete =>
          /\ ~sent.any
          /\ dm.pc = "off" /\ si.pc = "off" /\ ls = "off"
          /\ \A x \in FlowIds : ph[x].pc = "off" /\ rd[x].pc = "off"

\* Witness of C5: a handshake has run to its end and the broker's tasks,
\* started after it, have sent a frame.
HandshakeOrderWitness ==
    /\ main.pc = "select"
    /\ Len(trace) = 11
    /\ sent.any
    /\ sent.first.data_type \in {DT_Tty, DT_Winresize, DT_Proxy}

\* C6: after a proposal below 1024 the server has sent nothing more on that
\* connection, has closed it (self.stream holds no connection), has made no
\* broker and waits in accept for the next connection.
HandshakeRejection ==
    (Len(trace) = 6 /\ trace[6].value < MinDataSize) =>
        /\ main.pc = "accept"
        /\ ~sent.any /\ dm.pc = "off" /\ si.pc = "off"
        /\ control.stream = 0

\* What the code does on a rejection: nothing more is sent, no broker is made and main is
\* back in accept; the rejected connection stays open in self.stream.
HandshakeRejectionKeepsStream ==
    (Len(trace) = 6 /\ trace[6].value < MinDataSize) =>
        /\ main.pc = "accept"
        /\ ~sent.any /\ dm.pc = "off" /\ si.pc = "off"
        /\ control.stream # 0

\* The size negotiation of the current connection went through.
Negotiated == Len(trace) >= 6 /\ ~Rejects(trace[6].value)

\* C7: from the negotiation on and for as long as the connection is the
\* current one, message_data_size is the smaller of the size the server wrote
\* in step 4 and the peer's proposal, and it is at least 1024.
NegotiatedSizeIsMin ==
    Negotiated =>
        /\ control.message_data_size = Min(trace[5].value, trace[6].value)
        /\ control.message_data_size >= MinDataSize

\* Witness of C7: a broker runs on a connection whose peer proposed more than
\* the server offered.
NegotiatedSizeWitness ==
    /\ main.pc = "select"
    /\ sent.any
    /\ trace[6].value > trace[5].value
    /\ control.message_data_size = trace[5].value

\* C8: no frame the server sent after the size negotiation, during the
\* handshake or from the broker, has a payload longer than message_data_size.
MtuCap ==
    Negotiated =>
        /\ \A i \in 7..Len(trace) :
              trace[i].op = "push" => trace[i].message.data.len <= control.message_data_size
        /\ sent.maxlen <= control.message_data_size

\* The frames of the broker's tasks do stay within the
\* negotiated size, which is never below the 1024 bytes of their buffers.
MtuCapOfBroker == Negotiated => sent.maxlen <= control.message_data_size

----------------------------------------------------------------------------
\* Properties of the broker's flows (checked under SpecBroker).

\* The demultiplexer handles a Connection frame.
ConnectionDispatch ==
    /\ dm.pc = "dispatch"
    /\ dm.message.data_type = DT_Connection
    /\ dm' # dm

\* C9: for an inbound Connection frame with header_id X: X known and data not
\* empty, the table is unchanged and the payload goes to X's writer, which the
\* write appends to what the local peer was sent; X known and data empty, X is
\* removed in that very step, before the next pull; X unknown, nothing is
\* written, the table is unchanged and the demultiplexer goes on.
DemuxFlowRules ==
    [][ /\ ConnectionDispatch =>
            LET id == dm.message.header_id
                len == dm.message.data.len
            IN  /\ (id \in table /\ len > 0) =>
                      table' = table /\ dm'.pc = "flow_write" /\ dm'.message = dm.message
                /\ (id \in table /\ len = 0) =>
                      table' = table \ {id} /\ local' = local /\ dm'.pc = "winsize"
                /\ id \notin table =>
                      table' = table /\ local' = local /\ dm'.pc = "winsize"
        /\ (dm.pc = "flow_write" /\ dm' # dm /\ local[dm.message.header_id].up) =>
            /\ local'[dm.message.header_id].delivered =
                  Append(local[dm.message.header_id].delivered, dm.message.data)
            /\ table' = table
            /\ dm'.pc = "winsize"
      ]_vars

\* Witness of C9: flow X got one payload from the tunnel behind its SOCKS
\* reply, then the empty frame took it out of the table while its reader was
\* still running.
DemuxFlowRulesWitness ==
    \E x \in FlowIds :
        /\ Len(local[x].delivered) = 2
        /\ local[x].delivered[2].what = "remote"
        /\ dm.pc = "winsize"
        /\ dm.message.data_type = DT_Connection
        /\ dm.message.header_id = x
        /\ dm.message.data.len = 0
        /\ x \notin table
        /\ rd[x].pc \in {"select", "push"}

\* The bytes the data events of a flow's log put on the tunnel, from
\* position pos of the peer's stream on: the position behind the last of them
\* when they follow one another without gap, repetition or loss, -1 otherwise.
RECURSIVE TunnelEnd(_, _)
TunnelEnd(evs, pos) ==
    IF evs = << >> THEN pos
    ELSE IF Head(evs).ev # "data" THEN TunnelEnd(Tail(evs), pos)
    ELSE IF Head(evs).data.off = pos /\ Head(evs).wrote = Head(evs).data.len
         THEN TunnelEnd(Tail(evs), pos + Head(evs).data.len)
         ELSE -1

\* The reader of flow x has seen the end of the peer's input.
ObservedClose(x) == \E i \in 1..Len(flog[x]) : flog[x][i].ev = "closed"

\* No Connection/Data frame of flow x was pushed after its reader saw the end
\* of the peer's input.
NoDataAfterClose(x) ==
    \A i, j \in 1..Len(flog[x]) :
        (i < j /\ flog[x][i].ev = "closed") => flog[x][j].ev # "data"

\* C10: once the reader of flow X has observed the close of a peer that wrote
\* B bytes, the payloads of the Connection/Data frames emitted for X are those
\* B bytes in order, no frame for X follows, and the reader leaves with X out
\* of the table.
LocalFlowLifecycle ==
    \A x \in FlowIds : ObservedClose(x) =>
        /\ TunnelEnd(flog[x], 0) = local[x].written
        /\ NoDataAfterClose(x)
        /\ rd[x].pc \in {"remove", "exited"}
        /\ rd[x].pc = "exited" => x \notin table

\* What the reader does give: the frames for X carry the peer's bytes in the order
\* and at the lengths they were read, none follows the close, and X is out of
\* the table when the reader has left after it.
LocalFlowLifecycleOfFrames ==
    \A x \in FlowIds :
        /\ \A i \in 1..Len(flog[x]) : flog[x][i].ev = "data" =>
              flog[x][i].data.off =
                  TunnelEnd([j \in 1..(i - 1) |->
                                IF flog[x][j].ev = "data"
                                THEN [flog[x][j] EXCEPT !.wrote = flog[x][j].data.len]
                                ELSE flog[x][j]], 0)
        /\ ObservedClose(x) =>
              /\ NoDataAfterClose(x)
              /\ rd[x].pc \in {"remove", "exited"}
              /\ rd[x].pc = "exited" => x \notin table

\* proxy_handler has put flow x into the table (after its ConnectionCreate
\* was pushed and the SOCKS reply written).
FlowSetUp(x) == \E i \in 1..Len(flog[x]) : flog[x][i].ev = "insert"

\* The demultiplexer has handled an empty Connection frame for x after x's
\* ConnectionCreate was pushed.
EmptySinceCreate(x) ==
    \E i, j \in 1..Len(flog[x]) :
        i < j /\ flog[x][i].ev = "create" /\ flog[x][j].ev = "empty"

\* C11: a flow id X is in the flow table iff its ConnectionCreate was emitted
\* and the flow set up, and no empty Connection frame for X has been received
\* since the ConnectionCreate (nor has X's reader left and removed it).
FlowTableMembership ==
    \A x \in FlowIds :
        x \in table <=>
            (FlowSetUp(x) /\ ~EmptySinceCreate(x) /\ rd[x].pc # "exited")

\* What the table does hold: the flows proxy_handler inserted, less those the
\* demultiplexer found in the table when their empty frame came and those
\* whose reader has left through its removal.
FlowTableMembershipOfInserted ==
    \A x \in FlowIds :
        x \in table <=>
            /\ FlowSetUp(x)
            /\ ~\E i \in 1..Len(flog[x]) : flog[x][i].ev = "empty" /\ flog[x][i].known
            /\ rd[x].pc # "exited"

----------------------------------------------------------------------------
\* Properties of the broker's tasks (checked under Spec and SpecBroker).

\* Broker::run has returned to main.
RunReturned == main.pc \in {"returned", "exit"} /\ main.result = "broker_returned"

\* C12: once run has returned because stdin_handler or message_handler ended,
\* the other of the two takes no further step: no frame is pulled, no stdin
\* read, no frame pushed.
BrokerTermination ==
    [][ RunReturned => (dm' = dm /\ si' = si /\ nIn' = nIn /\ sent' = sent) ]_vars

\* What does hold: run returns as soon as one of the two has ended and main
\* looks, and nothing runs once main has returned.
BrokerTerminationAtExit ==
    [][ main.pc = "exit" => UNCHANGED brokerVars ]_vars

\* C13: an I/O error on a flow's local socket never ends the inbound
\* demultiplexer: message_handler ends only on an error of the TLS stream.
PerFlowErrorsAbsorbed ==
    [][ (dm.pc # "failed" /\ dm'.pc = "failed") => ~tls.up ]_vars

\* What does hold: a failing read of a per-flow reader only makes that
\* reader leave through the removal of its flow.
ReaderErrorsAbsorbed ==
    [][ \A x \in FlowIds :
          (rd[x].pc = "select" /\ ~local[x].up /\ rd'[x] # rd[x]) =>
              /\ rd'[x].pc = "remove"
              /\ dm' = dm /\ si' = si /\ main' = main
      ]_vars

\* run has returned, with the broker's result or with proxy_create's error.
RunEnded == main.pc \in {"returned", "exit"}

ConnectionFrames(x) ==
    { i \in 1..Len(flog[x]) : flog[x][i].ev \in {"create", "data"} }

\* C15: with a proxy address the first frame the broker sends is ProxyCreate
\* (Proxy, header_type Create, header_proxy_type Static, the proxy string), so
\* it precedes every other frame, and the listener and every flow exist only
\* after it; without a proxy address no Proxy and no Connection frame is sent.
ProxyCreateFirst ==
    /\ control.proxy_address =>
          /\ sent.any => (sent.first = ProxyCreateFrame /\ sent.proxy)
          /\ (ls # "off" \/ dm.pc # "off" \/ si.pc # "off") => sent.proxy
          /\ \A x \in FlowIds : ph[x].pc # "off" => sent.proxy
    /\ ~control.proxy_address =>
          /\ ~sent.proxy
          /\ ls = "off"
          /\ \A x \in FlowIds : ConnectionFrames(x) = {} /\ ph[x].pc = "off"

\* Witness of C15: with a proxy address, ProxyCreate went first, the listener
\* runs and a flow has sent its ConnectionCreate and data, and the
\* demultiplexer a Winresize frame.
ProxyCreateFirstWitness ==
    /\ control.proxy_address
    /\ sent.first = ProxyCreateFrame
    /\ ls = "listening"
    /\ dm.pc = "winsize_store"
    /\ \E x \in FlowIds : Cardinality(ConnectionFrames(x)) >= 2

\* What proxy_handler did for flow x, in order: the ConnectionCreate frame,
\* the reply to the peer, the insertion into the flow table.
HandlerEvents(x) ==
    SelectSeq(flog[x], LAMBDA e : e.ev \in {"create", "reply", "insert"})

\* The SOCKS4 request read from the peer of flow x is a CONNECT of version 4.
Socks4Connect(x) == ph[x].version = 4 /\ ph[x].command = 1

\* C16: for a request of version 4 and command 1 proxy_handler emits
\* ConnectionCreate (header_id the peer's source port, the connection string
\* as data), then writes the 8-byte reply, then inserts the flow and starts
\* its reader, in that order; for any other request it emits no frame, writes
\* no reply and creates no table entry.
Socks4AcceptSequence ==
    \A x \in FlowIds :
        LET h == HandlerEvents(x) IN
        /\ \E n \in 0..3 :
              /\ Len(h) = n
              /\ \A i \in 1..n : h[i].ev = << "create", "reply", "insert" >>[i]
        /\ Len(h) >= 1 =>
              /\ h[1].frame.data_type = DT_Connection
              /\ h[1].frame.header_type = 0
              /\ h[1].frame.header_id = x
              /\ h[1].frame.data.len = ConnectionStringLen
        /\ Len(local[x].delivered) >= 1 =>
              /\ Len(h) >= 2
              /\ local[x].delivered[1] = Data("reply", 0, 8)
        /\ Len(h) >= 2 => Len(local[x].delivered) >= 1
        /\ (x \in table \/ rd[x].pc # "off") => Len(h) = 3
        /\ ph[x].pc = "done" => Len(h) = 3
        /\ ph[x].pc \in {"create", "reply", "insert", "done"} => Socks4Connect(x)
        /\ ~Socks4Connect(x) =>
              /\ h = << >>
              /\ local[x].delivered = << >>
              /\ x \notin table
              /\ rd[x].pc = "off"

\* Witness of C16: a version 4 CONNECT request went through the whole sequence.
Socks4AcceptWitness ==
    \E x \in FlowIds :
        /\ ph[x].pc = "done" /\ Socks4Connect(x)
        /\ Len(HandlerEvents(x)) = 3
        /\ Len(local[x].delivered) >= 1

\* message_handler is at an await on a socket: the pull from the TLS stream,
\* the write to a local socket, the push of the Winresize frame.
DemuxAtSocketIo == dm.pc \in {"pull", "flow_write", "winsize_push"}

\* C17: the flow-table lock is held for a single lookup, insert or removal
\* only, so that no task is at a socket read or write while it holds the lock.
FlowTableLockDiscipline ==
    /\ tableLock \in {"none", "demux"}
    /\ tableLock = "demux" => ~DemuxAtSocketIo

\* What the code keeps of it: proxy_handler and proxy_reader take the lock
\* for one insert, lookup or removal, and only message_handler holds it
\* across steps, while it writes a frame's payload to a local socket.
FlowTableLockOfDemux ==
    /\ tableLock \in {"none", "demux"}
    /\ tableLock = "demux" <=> dm.pc = "flow_write"

\* C18: a Tty frame sent by stdin_handler carries 1 to 1024 bytes, a read of
\* zero bytes produces no frame (stated of the first frame sent, which is
\* stdin_handler's whenever it is a Tty frame).
StdinFramesNonEmpty ==
    (sent.any /\ sent.first.data_type = DT_Tty) =>
        /\ sent.first.data.len >= 1
        /\ sent.first.data.len <= StdinBufSize

\* What the code keeps of it: the upper bound, and that the frame carries
\* exactly what the read returned.
StdinFramesBounded ==
    /\ []((sent.any /\ sent.first.data_type = DT_Tty) =>
            sent.first.data.len \in {0, 1, StdinBufSize})
    /\ [][ (si.pc = "push" /\ si'.pc = "read") => sent'.maxlen >= si.n ]_vars

\* No event of a flow is lost from its log.
FlowLogComplete == \A x \in FlowIds : Len(flog[x]) < MaxLog

\* proxy_reader of flow x runs while the flow is not in the table: the
\* demultiplexer has removed it.
RemovedUnderReader(x) == rd[x].pc \in {"select", "push"} /\ x \notin table

\* C19: once the demultiplexer has removed flow x, the reader of x eventually
\* exits (and so sends no more Connection frames for x), whatever the local
\* socket does, a socket that keeps delivering data included.
ReaderObservesRemoval ==
    \A x \in FlowIds : RemovedUnderReader(x) ~> (rd[x].pc \in {"exited", "failed"})

\* message_handler has done with the frame it pulled.
FrameHandled ==
    /\ dm.pc \in {"dispatch", "flow_write"}
    /\ dm'.pc \notin {"dispatch", "flow_write", "failed"}

\* C20: after each inbound frame it handled message_handler looks at the
\* window-resized flag; when it is set it sends exactly one Winresize frame of
\* be_u16(rows) || be_u16(cols) and clears the flag, when it is not it sends
\* nothing and pulls the next frame; a Winresize frame is sent nowhere else.
WinresizePolling ==
    [][ /\ FrameHandled => dm'.pc = "winsize"
        /\ (dm.pc = "winsize" /\ dm' # dm) =>
              /\ sent' = sent /\ update_winsize' = update_winsize
              /\ dm'.pc = IF update_winsize THEN "winsize_push" ELSE "pull"
        /\ (dm.pc = "winsize_push" /\ dm' # dm /\ tls.up) =>
              /\ Pushed(WinresizeFrame)
              /\ dm'.pc = "winsize_store"
        /\ (dm.pc = "winsize_store" /\ dm' # dm) =>
              /\ sent' = sent /\ ~update_winsize'
              /\ dm'.pc = "pull"
        /\ (dm.pc # "pull" /\ dm'.pc = "pull") =>
              dm.pc \in {"off", "winsize", "winsize_store"}
        /\ (~sent.any /\ sent'.any /\ sent'.first.data_type = DT_Winresize) =>
              (dm.pc = "winsize_push" /\ dm'.pc = "winsize_store")
        /\ \A ws \in Winsizes :
              /\ WinsizePayload(ws) =
                    << ws.ws_row \div 256, ws.ws_row % 256,
                       ws.ws_col \div 256, ws.ws_col % 256 >>
              /\ WinresizeFrame.data.len = Len(WinsizePayload(ws))
      ]_vars

\* Witness of C20: the flag was set, the frame after an inbound frame was the
\* Winresize frame, the first this broker sent, and the flag is clear again.
WinresizePollingWitness ==
    /\ nIn >= 1
    /\ sent.any /\ sent.first = WinresizeFrame
    /\ dm.pc = "pull"
    /\ ~update_winsize

\* The frames the peer gets out of the byte stream by pulling one after the
\* other, up to the first pull that does not complete.
RECURSIVE PeerFrames(_, _)
PeerFrames(bytes, overflow_checks) ==
    IF bytes = << >> THEN << >>
    ELSE LET r == Pull(bytes, overflow_checks)
         IN  IF r.status = "ok"
             THEN << r.message >>
                  \o PeerFrames(SubSeq(bytes, r.consumed + 1, Len(bytes)), overflow_checks)
             ELSE << >>

\* The frame m as pull returns it: header_proxy_type only where it is sent.
AsPulled(m) ==
    [m EXCEPT !.header_type = IF HasSubheaders(m) THEN @ ELSE MessageNew.header_type,
              !.header_id = IF HasSubheaders(m) THEN @ ELSE MessageNew.header_id,
              !.header_proxy_type = IF HasSubheaders(m) /\ HasProxyType(m)
                                    THEN @ ELSE MessageNew.header_proxy_type]

\* The header fields of m as push writes them, the payload left out.
EncodeHeader(m) == Flatten(SubSeq(PushFields(m), 1, Len(PushFields(m)) - 1))

\* bytes is what the pushes of frames, one after the other, may have put on
\* the stream: of each frame its header and the part of its payload that
\* the writer took.
RECURSIVE InLockOrder(_, _)
InLockOrder(bytes, frames) ==
    IF frames = << >> THEN bytes = << >>
    ELSE LET m == Head(frames)
             h == EncodeHeader(m)
         IN  \E n \in WriteAccepts(m.data) :
               /\ Len(bytes) >= Len(h) + n
               /\ SubSeq(bytes, 1, Len(h) + n) = h \o SubSeq(m.data, 1, n)
               /\ InLockOrder(SubSeq(bytes, Len(h) + n + 1, Len(bytes)), Tail(frames))

FramesOnWireInLockOrder == wlock = 0 => InLockOrder(wire, order)

\* And the pushes of a flow are issued in the order claimed: no Data frame of
\* flow x before its ConnectionCreate.
CreateBeforeData ==
    \A x \in FlowIds : \A j \in 1..Len(flog[x]) :
        flog[x][j].ev = "data" =>
            \E i \in 1..(j - 1) : flog[x][i].ev = "create"

\* The server has emitted ConnectionCreate for flow x and neither side has
\* closed it: no empty frame has come for x, its local peer has not closed or
\* reset, no task of the flow has failed or left.
FlowOpen(x) ==
    /\ \E i \in 1..Len(flog[x]) : flog[x][i].ev = "create"
    /\ \A i \in 1..Len(flog[x]) : flog[x][i].ev \notin {"empty", "closed", "error", "gone"}
    /\ local[x].up /\ ~local[x].closed
    /\ ph[x].pc # "failed"
    /\ rd[x].pc \in {"off", "select", "push"}

\* C22: a non-empty inbound Connection frame for a flow that is open is
\* written to the flow's local socket, also when the demultiplexer handles it
\* between the emission of ConnectionCreate and the insertion into the table.
NoInboundDataLost ==
    [][ (ConnectionDispatch /\ dm.message.data.len > 0
                            /\ FlowOpen(dm.message.header_id)) =>
            dm'.pc = "flow_write"
      ]_vars

\* What the code keeps of it: the frames for an open flow that is in the
\* table already.
NoInboundDataLostOnceInserted ==
    [][ (ConnectionDispatch /\ dm.message.data.len > 0
                            /\ FlowOpen(dm.message.header_id)
                            /\ FlowSetUp(dm.message.header_id)) =>
            dm'.pc = "flow_write"
      ]_vars

\* C23: no window resize is lost: while a resize has not been reported by a
\* Winresize frame whose size was read after it, the flag stays set, so that
\* the frame is sent after a later inbound frame; the flag is never cleared
\* for a resize that has not been reported.
NoLostResize ==
    [][ (update_winsize /\ ~update_winsize') => ~unreported ]_vars

\* What the code keeps of it: a resize that comes while the flag is clear, or
\* before the size is read, is reported; the flag is cleared only by the
\* store that follows a Winresize frame.
ResizeFlagClearedAfterFrame ==
    [][ (update_winsize /\ ~update_winsize') =>
            (dm.pc = "winsize_store" /\ sent.any) ]_vars

\* C24: the handshake of every accepted connection offers 0xFFFF as data
\* size, and the size negotiated is min(0xFFFF, the proposal of that
\* connection's peer), whatever earlier connections proposed and however
\* their handshakes ended.
HandshakesIndependent ==
    /\ Len(trace) >= 5 => trace[5] = WriteU16(U16Max)
    /\ Negotiated =>
          control.message_data_size = NegotiatedSize(U16Max, trace[6].value)

\* What the code keeps of it: the first connection is offered 0xFFFF, a
\* rejected proposal leaves the size as it was, and the size Control holds
\* never grows.
HandshakesOfOneControl ==
    /\ []((main.conn = 1 /\ Len(trace) >= 5) => trace[5] = WriteU16(U16Max))
    /\ [][ control'.message_data_size <= control.message_data_size ]_vars
    /\ [][ (main.pc = "read_size" /\ main'.result = "rejected") =>
              control' = control ]_vars

\* The frame that was pulled had been written to the stream in full.
PulledWholeFrame ==
    rx.status # "none" /\ Region(rx.from) = Encode(snd[rx.from].message)

\* C25: pull discards max(0, header_len - header bytes read) surplus bytes
\* and its counter never goes below zero: whatever header_len a frame states,
\* too small a one included, pull returns the frame and has consumed its
\* 2 + header + data_len bytes and the surplus, no more.
BoundedHeaderConsumption ==
    PulledWholeFrame =>
        /\ rx.status = "ok"
        /\ rx.consumed = rx.given
        /\ rx.message.data = snd[rx.from].message.data

\* What the code keeps of it: with a header_len that covers the header the
\* surplus, and nothing else, is discarded.
BoundedHeaderConsumptionIfCovered ==
    (PulledWholeFrame /\ rx.pad >= 0) =>
        /\ rx.status = "ok"
        /\ rx.consumed = rx.given
        /\ rx.consumed = Len(Encode(snd[rx.from].message)) + rx.pad
        /\ rx.message.data = snd[rx.from].message.data

\* The mutex task t is about to lock, "none" when it is not at a lock().await.
LockWanted(t) ==
    CASE locks.at[t] = "pull_lock" -> "reader"
      [] locks.at[t] \in {"table_lock", "insert_lock", "tick_lock", "leave_lock"} -> "table"
      [] locks.at[t] = "writer_lock" -> "local_writer"
      [] locks.at[t] \in {"push_lock", "create_lock", "proxy_lock"} -> "writer"
      [] OTHER -> "none"

\* Task t waits for a mutex that is held.
Blocked(t) == LockWanted(t) # "none" /\ locks.holder[LockWanted(t)] # "none"

\* The task that t waits for after n steps along the waits, "none" when the
\* chain ends before.
RECURSIVE WaitChain(_, _)
WaitChain(t, n) ==
    IF n = 0 THEN t
    ELSE LET u == WaitChain(t, n - 1)
         IN  IF u # "none" /\ Blocked(u) THEN locks.holder[LockWanted(u)] ELSE "none"

\* The mutexes task h has yet to lock before it drops the guards it holds.
NeedsBeforeRelease(h) ==
    IF locks.at[h] \in {"lookup", "writer_lock"} THEN {"local_writer"} ELSE {}

\* C26: no circular wait among the tasks on the TLS writer, the TLS reader,
\* the flow table and the local-writer mutexes; the holder of a mutex a task
\* waits for can drop it without a mutex that the waiting task holds, and
\* some task can always go on.
LockDeadlockFreedom ==
    /\ \A t \in Tasks : \A n \in 1..Cardinality(Tasks) : WaitChain(t, n) # t
    /\ \A t \in Tasks : Blocked(t) =>
          \A l \in NeedsBeforeRelease(locks.holder[LockWanted(t)]) :
              locks.holder[l] # t
    /\ (\E t \in Tasks : Blocked(t)) => ENABLED NextLocks

\* Witness of C26: message_handler holds the table and the local-writer
\* mutexes while proxy_reader waits for the table and stdin_handler holds the
\* TLS writer.
LockDeadlockFreedomWitness ==
    /\ locks.at["message_handler"] = "flow_write"
    /\ locks.at["proxy_reader"] = "leave_lock" /\ Blocked("proxy_reader")
    /\ locks.holder["writer"] = "stdin_handler"

====
